---- MODULE Spec2Model ----
(***************************************************************************)
(* The immunization notebook (notebooks/master_notebook.ipynb) as a state  *)
(* machine: one action per code cell that assigns a variable, run in the   *)
(* order of the notebook.  The state is the notebook's DataFrames.         *)
(*                                                                         *)
(* A cell value is a record [k, s, n, d]:                                  *)
(*   k = "str"  a Python string, s its characters;                         *)
(*   k = "num"  a number n/d in lowest terms (d = 0: n = 1 is inf, n = -1  *)
(*              is -inf); int64 and float64 values are not told apart, 5   *)
(*              and 5.0 are the same cell, as 5 == 5.0 in Python;          *)
(*   k = "nan"  NaN, the missing value of pandas.                          *)
(* A DataFrame is [columns, rows]; a row is [idx, v]: its index label and  *)
(* its cells in column order.                                              *)
(*                                                                         *)
(* An exception a cell does not catch ends the run: err names it and no    *)
(* later cell runs.  The one exception is the cell at line 262, whose      *)
(* failure the notebook records (line 270) before going on.                *)
(***************************************************************************)
EXTENDS Integers, Sequences, FiniteSets, TLC

VARIABLES pc, err, df04, df09, df14, df, df_year

vars == <<pc, err, df04, df09, df14, df, df_year>>

\* Rows of data in one CSV file.
MaxRows == 2

(***************************************************************************)
(* Cell values                                                             *)
(***************************************************************************)
NaN == [k |-> "nan", s |-> <<>>, n |-> 0, d |-> 0]

Str(chars) == [k |-> "str", s |-> chars, n |-> 0, d |-> 0]

Abs(x) == IF x < 0 THEN -x ELSE x

RECURSIVE GCD(_, _)
GCD(a, b) == IF b = 0 THEN a ELSE GCD(b, a % b)

\* The number n/d with d > 0, in lowest terms.
Rat(n, d) ==
    LET g == GCD(Abs(n), d)
    IN  [k |-> "num", s |-> <<>>, n |-> n \div g, d |-> d \div g]

Num(i) == [k |-> "num", s |-> <<>>, n |-> i, d |-> 1]

Inf == [k |-> "num", s |-> <<>>, n |-> 1, d |-> 0]

NegInf == [k |-> "num", s |-> <<>>, n |-> -1, d |-> 0]

\* x + y of two finite numbers (the sum of a group).
Add(x, y) == Rat(x.n * y.d + y.n * x.d, x.d * y.d)

\* x / y as pandas divides two numeric columns: true division, and a zero
\* divisor gives inf, -inf or NaN, never an exception.
TrueDiv(x, y) ==
    LET num == x.n * y.d
        den == x.d * y.n
    IN  IF den = 0
        THEN IF num > 0 THEN Inf ELSE IF num < 0 THEN NegInf ELSE NaN
        ELSE IF den < 0 THEN Rat(-num, -den) ELSE Rat(num, den)

(***************************************************************************)
(* Python: str.replace(',', ''), int(str), x[:-4]                          *)
(***************************************************************************)
DigitVal ==
    [c \in {"0", "1", "2", "3", "4", "5", "6", "7", "8", "9"} |->
        CASE c = "0" -> 0 [] c = "1" -> 1 [] c = "2" -> 2 [] c = "3" -> 3
          [] c = "4" -> 4 [] c = "5" -> 5 [] c = "6" -> 6 [] c = "7" -> 7
          [] c = "8" -> 8 [] c = "9" -> 9]

IsDigit(c) == c \in DOMAIN DigitVal

\* x.replace(',', '', 1): the first ',' alone is removed.
replace_first_comma(chars) ==
    IF \E i \in 1..Len(chars) : chars[i] = ","
    THEN LET i == CHOOSE j \in 1..Len(chars) :
                     chars[j] = "," /\ \A m \in 1..(j - 1) : chars[m] # ","
         IN  SubSeq(chars, 1, i - 1) \o SubSeq(chars, i + 1, Len(chars))
    ELSE chars

\* x.replace(',', ''): every occurrence of ',' is removed.
replace_comma(chars) == SelectSeq(chars, LAMBDA c : c # ",")

RECURSIVE strip(_)
strip(chars) ==
    IF chars = <<>> THEN <<>>
    ELSE IF Head(chars) = " " THEN strip(Tail(chars))
    ELSE IF chars[Len(chars)] = " " THEN strip(SubSeq(chars, 1, Len(chars) - 1))
    ELSE chars

RECURSIVE base10(_)
base10(digits) ==
    IF digits = <<>> THEN 0
    ELSE 10 * base10(SubSeq(digits, 1, Len(digits) - 1))
         + DigitVal[digits[Len(digits)]]

Unsigned(chars) ==
    IF chars # <<>> /\ Head(chars) \in {"+", "-"} THEN Tail(chars) ELSE chars

\* int(s) of a string succeeds on optional blanks, an optional sign and one
\* or more decimal digits; anything else is a ValueError.
int_ok(chars) ==
    LET u == Unsigned(strip(chars))
    IN  u # <<>> /\ \A i \in 1..Len(u) : IsDigit(u[i])

int_of(chars) ==
    LET t == strip(chars)
        v == base10(Unsigned(t))
    IN  IF Head(t) = "-" THEN -v ELSE v

\* x[:-4]
TrimWidth == 4

\* x[-4:]: the last four characters, not all but the last four.
trim_keeps_suffix(chars) ==
    IF Len(chars) > TrimWidth
    THEN SubSeq(chars, Len(chars) - TrimWidth + 1, Len(chars))
    ELSE chars

trim(chars) ==
    IF Len(chars) > TrimWidth THEN SubSeq(chars, 1, Len(chars) - TrimWidth)
    ELSE <<>>

\* int(x): of a string as int_of, or a ValueError; of a number, its integer
\* part; of NaN a ValueError.
int_accepts(x) ==
    \/ x.k = "str" /\ int_ok(x.s)
    \/ x.k = "num" /\ x.d # 0

int(x) ==
    IF x.k = "str" THEN Num(int_of(x.s))
    ELSE IF x.n >= 0 THEN Num(x.n \div x.d) ELSE Num(-((-x.n) \div x.d))

\* lambda x: int(x.replace(',', ''))
coerce(x) == Num(int_of(replace_comma(x.s)))

\* lambda x: x[:-4]
truncate(x) == Str(trim(x.s))

\* The three functions the notebook maps over columns, by name.
apply(f, x) ==
    CASE f = "int" -> int(x)
      [] f = "coerce" -> coerce(x)
      [] f = "truncate" -> truncate(x)

(***************************************************************************)
(* pandas: the DataFrame operations the notebook uses                      *)
(***************************************************************************)
NoFrame == [columns |-> <<>>, rows |-> <<>>]

HasCol(frame, name) == \E j \in 1..Len(frame.columns) : frame.columns[j] = name

ColPos(frame, name) ==
    CHOOSE j \in 1..Len(frame.columns) : frame.columns[j] = name

Col(frame, r, name) == r.v[ColPos(frame, name)]

\* frame.ix[:, names] and frame[names]: the named columns, in the order
\* named; reindexing to a name the frame lacks gives a column of NaN.
select_columns(frame, names) ==
    [columns |-> names,
     rows |-> [i \in 1..Len(frame.rows) |->
        [idx |-> frame.rows[i].idx,
         v |-> [j \in 1..Len(names) |->
                  IF HasCol(frame, names[j])
                  THEN Col(frame, frame.rows[i], names[j]) ELSE NaN]]]]

\* frame.ix[from:, positions]: the rows whose label is at least `from`, and
\* the columns at the given 0-based positions.
select_positions(frame, from, positions) ==
    [columns |-> [j \in 1..Len(positions) |-> frame.columns[positions[j] + 1]],
     rows |-> LET kept == SelectSeq(frame.rows, LAMBDA r : r.idx >= from)
              IN  [i \in 1..Len(kept) |->
                     [idx |-> kept[i].idx,
                      v |-> [j \in 1..Len(positions) |->
                               kept[i].v[positions[j] + 1]]]]]

HasNaN(r) == \E j \in 1..Len(r.v) : r.v[j].k = "nan"

\* frame.dropna(): the rows with no NaN in any column of the frame.
dropna(frame) ==
    [columns |-> frame.columns,
     rows |-> SelectSeq(frame.rows, LAMBDA r : ~HasNaN(r))]

\* frame[names] = frame[names].applymap(f)
applymap(frame, names, f) ==
    [columns |-> frame.columns,
     rows |-> [i \in 1..Len(frame.rows) |->
        [idx |-> frame.rows[i].idx,
         v |-> [j \in 1..Len(frame.columns) |->
                  IF \E m \in 1..Len(names) : names[m] = frame.columns[j]
                  THEN apply(f, frame.rows[i].v[j]) ELSE frame.rows[i].v[j]]]]]

CellsOf(frame, names) ==
    {frame.rows[i].v[ColPos(frame, names[m])] :
        i \in 1..Len(frame.rows), m \in 1..Len(names)}

\* frame[name] = value, for a new column: appended as the last column.
add_column(frame, name, value) ==
    [columns |-> Append(frame.columns, name),
     rows |-> [i \in 1..Len(frame.rows) |->
        [idx |-> frame.rows[i].idx, v |-> Append(frame.rows[i].v, value)]]]

\* frame.columns = names
set_columns(frame, names) == [columns |-> names, rows |-> frame.rows]

\* The new column put last, wherever it was to go.
insert_last(frame, loc, name, value) ==
    [columns |-> Append(frame.columns, name),
     rows |-> [i \in 1..Len(frame.rows) |->
        [idx |-> frame.rows[i].idx, v |-> Append(frame.rows[i].v, value)]]]

InsertAt(seq, loc, x) ==
    SubSeq(seq, 1, loc) \o <<x>> \o SubSeq(seq, loc + 1, Len(seq))

\* frame.insert(loc, name, value)
insert(frame, loc, name, value) ==
    [columns |-> InsertAt(frame.columns, loc, name),
     rows |-> [i \in 1..Len(frame.rows) |->
        [idx |-> frame.rows[i].idx,
         v |-> InsertAt(frame.rows[i].v, loc, value)]]]

RemoveAt(seq, j) == SubSeq(seq, 1, j - 1) \o SubSeq(seq, j + 1, Len(seq))

\* frame.drop(name, axis=1)
drop_column(frame, name) ==
    LET j == ColPos(frame, name)
    IN  [columns |-> RemoveAt(frame.columns, j),
         rows |-> [i \in 1..Len(frame.rows) |->
            [idx |-> frame.rows[i].idx, v |-> RemoveAt(frame.rows[i].v, j)]]]

HasLabel(frame, label) == \E i \in 1..Len(frame.rows) : frame.rows[i].idx = label

\* The label taken for a position: the row at that 0-based position goes.
drop_position(frame, label) ==
    [columns |-> frame.columns,
     rows |-> IF label < Len(frame.rows)
              THEN SubSeq(frame.rows, 1, label)
                   \o SubSeq(frame.rows, label + 2, Len(frame.rows))
              ELSE frame.rows]

\* frame.drop(label, axis=0): every row with that index label is removed.
drop_label(frame, label) ==
    [columns |-> frame.columns,
     rows |-> SelectSeq(frame.rows, LAMBDA r : r.idx # label)]

\* Every column name of the notebook, in the order Python sorts strings.
sorted_names ==
    <<"Enrolled", "Enrollment", "Other", "Polio Prot.", "PolioProt",
      "Protected", "RCDT", "RCDTS", "School", "Total Sch. Enroll.", "Year",
      "c0", "c1", "c2", "c3", "c4", "c5", "c6", "c7", "c8",
      "enrollment", "protected", "rcdt", "rcdts", "year">>

\* pd.concat([b, a]): the frames in the other order.
concat_swapped(a, b) ==
    IF a.columns = b.columns
    THEN [columns |-> a.columns, rows |-> b.rows \o a.rows]
    ELSE [columns |-> a.columns, rows |-> a.rows]

\* pd.concat([a, b]): the rows of a, then the rows of b, index labels kept.
\* Frames with the same columns keep them; otherwise the result has the
\* sorted union of the columns and a row has NaN where its frame had no such
\* column.  No schema is ever refused.
concat(a, b) ==
    IF a.columns = b.columns
    THEN [columns |-> a.columns, rows |-> a.rows \o b.rows]
    ELSE LET union == SelectSeq(sorted_names,
                                LAMBDA c : HasCol(a, c) \/ HasCol(b, c))
         IN  [columns |-> union,
              rows |-> select_columns(a, union).rows
                       \o select_columns(b, union).rows]

RECURSIVE sorted(_)
sorted(S) ==
    IF S = {} THEN <<>>
    ELSE LET m == CHOOSE x \in S : \A y \in S : x <= y
         IN  <<m>> \o sorted(S \ {m})

\* 'last' for 'sum': the value of the last row of the group.
last(cells) == IF cells = <<>> THEN Num(0) ELSE cells[Len(cells)]

RECURSIVE sum(_)
sum(cells) ==
    IF cells = <<>> THEN Num(0)
    ELSE Add(sum(SubSeq(cells, 1, Len(cells) - 1)), cells[Len(cells)])

\* frame.groupby(key).aggregate({name: 'sum', ...}): one row per distinct
\* value of the key column, in ascending order and labelled by it, holding
\* the sum of each named column over the rows with that key.
groupby_sum(frame, key, names) ==
    LET keys == sorted({Col(frame, frame.rows[i], key).n :
                            i \in 1..Len(frame.rows)})
        group(y) == SelectSeq(frame.rows, LAMBDA r : Col(frame, r, key).n = y)
    IN  [columns |-> names,
         rows |-> [g \in 1..Len(keys) |->
            [idx |-> keys[g],
             v |-> [j \in 1..Len(names) |->
                      LET rs == group(keys[g])
                      IN  sum([i \in 1..Len(rs) |-> Col(frame, rs[i], names[j])])]]]]

\* frame[name] = frame[a] / frame[b], for a new column name
divide_columns(frame, name, a, b) ==
    [columns |-> Append(frame.columns, name),
     rows |-> [i \in 1..Len(frame.rows) |->
        [idx |-> frame.rows[i].idx,
         v |-> Append(frame.rows[i].v,
                      TrueDiv(Col(frame, frame.rows[i], a),
                              Col(frame, frame.rows[i], b)))]]]

\* frame[name] = frame[src].apply(f), for a column name the frame has
assign_from(frame, name, src, f) ==
    [columns |-> frame.columns,
     rows |-> [i \in 1..Len(frame.rows) |->
        [idx |-> frame.rows[i].idx,
         v |-> [j \in 1..Len(frame.columns) |->
                  IF frame.columns[j] = name
                  THEN apply(f, Col(frame, frame.rows[i], src))
                  ELSE frame.rows[i].v[j]]]]]

(***************************************************************************)
(* The three CSV files, as read_csv returns them.  The numeric columns of  *)
(* 04-05 and 14-15 arrive as strings (lines 247, 558), those of 09-10 as   *)
(* numbers (line 457); a blank field is NaN.  "Other" and c1, c2, ...      *)
(* stand for the columns the notebook does not select.                     *)
(***************************************************************************)
SeqsUpTo(S, n) == UNION {[1..m -> S] : m \in 0..n}

\* read_csv labels the rows 0, 1, 2, ...
Frame(names, seq) ==
    [columns |-> names,
     rows |-> [i \in 1..Len(seq) |-> [idx |-> i - 1, v |-> seq[i]]]]

id_0100 == Str(<<"0", "1", "0", "0">>)
id_0200 == Str(<<"0", "2", "0", "0">>)
id_01001001 == Str(<<"0", "1", "0", "0", "1", "0", "0", "1">>)
id_01001002 == Str(<<"0", "1", "0", "0", "1", "0", "0", "2">>)
id_010 == Str(<<"0", "1", "0">>)
id_Total == Str(<<"T", "o", "t", "a", "l">>)
n_a == Str(<<"n", "/", "a">>)

raw_columns04 ==
    <<"RCDT", "School", "Other", "Total Sch. Enroll.", "Polio Prot.">>

Rows04 ==
    { <<id_0100, n_a, NaN, Str(<<"1", ",", "2", "3", "4">>),
                           Str(<<"1", ",", "2", "0", "0">>)>>,
      <<id_0100, Str(<<"A">>), NaN, Str(<<"5", "0">>), Str(<<"4", "0">>)>>,
      <<id_0200, NaN, NaN, Str(<<"5">>), Str(<<"7">>)>>,
      <<NaN, NaN, NaN, NaN, NaN>>,
      <<id_0200, n_a, NaN, n_a, Str(<<"1">>)>> }

Files04 == {Frame(raw_columns04, seq) : seq \in SeqsUpTo(Rows04, MaxRows)}

raw_columns09 == <<"RCDTS", "Other", "Enrollment", "PolioProt">>

Rows09 ==
    { <<id_01001001, NaN, Num(10), Num(9)>>,
      <<id_01001002, NaN, Rat(5, 2), Num(1)>>,
      <<id_010, NaN, Num(0), Num(0)>>,
      <<id_0200, NaN, NaN, NaN>> }

Files09 == {Frame(raw_columns09, seq) : seq \in SeqsUpTo(Rows09, MaxRows)}

raw_columns14 == <<"c0", "c1", "c2", "c3", "c4", "c5", "c6", "c7", "c8">>

Row14(rcdts, enrolled, protected) ==
    <<rcdts, NaN, NaN, enrolled, NaN, NaN, NaN, NaN, protected>>

\* Rows 0 and 1 of the 14-15 file hold the names of the columns (line 503).
header14 ==
    << [idx |-> 0, v |-> Row14(Str(<<"R", "C", "D", "T", "S">>), NaN, NaN)],
       [idx |-> 1, v |-> Row14(NaN, Str(<<"E", "n", "r">>), Str(<<"P", "r", "o", "t">>))] >>

Rows14 ==
    { Row14(id_01001001, Str(<<"1", ",", "2", "3", "4">>),
                         Str(<<"1", ",", "0", "0", "0">>)),
      Row14(id_01001002, Str(<<"0">>), Str(<<"0">>)),
      Row14(id_010, Str(<<"-", "5">>), Str(<<"7">>)),
      Row14(id_0200, n_a, Str(<<"1">>)),
      Row14(id_0200, NaN, NaN),
      Row14(id_Total, Str(<<"9", ",", "9", ",", "9">>),
                      Str(<<"9", ",", "0", ",", "0">>)) }

\* The row the notebook drops by its index label.
SentinelLabel == 4876

\* The labels of the data rows of the 14-15 file that are not empty; every
\* other line of the file is an empty row, which dropna removes.
data_labels14 == {2, 3, SentinelLabel}

File14(content) ==
    LET labels == sorted(DOMAIN content)
    IN  [columns |-> raw_columns14,
         rows |-> header14 \o [i \in 1..Len(labels) |->
                      [idx |-> labels[i], v |-> content[labels[i]]]]]

Files14 ==
    { File14(content) :
        content \in UNION {[L -> Rows14] :
            L \in {S \in SUBSET data_labels14 : Cardinality(S) <= MaxRows}} }

(***************************************************************************)
(* The lists of column names the notebook assigns                          *)
(***************************************************************************)
columns_to_keep == <<"RCDT", "School", "Total Sch. Enroll.", "Polio Prot.">>

cols == <<"Total Sch. Enroll.", "Polio Prot.">>

columns_to_keep09 == <<"RCDTS", "Enrollment", "PolioProt">>

new_column_names == <<"RCDTS", "Enrolled", "Protected">>

cols14 == <<"Enrolled", "Protected">>

columns == <<"rcdts", "enrollment", "protected", "year">>

columns_we_want == <<"rcdt", "enrollment", "protected", "year">>

(***************************************************************************)
(* The cells                                                               *)
(***************************************************************************)
Init ==
    /\ pc = "L147"
    /\ err = "none"
    /\ df04 = NoFrame
    /\ df09 = NoFrame
    /\ df14 = NoFrame
    /\ df = NoFrame
    /\ df_year = NoFrame

Running(line) == pc = line /\ err = "none"

\* The cell raises: nothing it was to assign is assigned.
Raise(exception) ==
    /\ err' = exception
    /\ UNCHANGED <<pc, df04, df09, df14, df, df_year>>

\* df04 = pd.read_csv('../data/immunization_04-05.csv', skiprows=1)
read_csv04 ==
    /\ Running("L147")
    /\ \E file \in Files04 : df04' = file
    /\ pc' = "L174"
    /\ UNCHANGED <<err, df09, df14, df, df_year>>

\* df04 = df04.ix[:, columns_to_keep]
project04 ==
    /\ Running("L174")
    /\ df04' = select_columns(df04, columns_to_keep)
    /\ pc' = "L195"
    /\ UNCHANGED <<err, df09, df14, df, df_year>>

\* df04.dropna(inplace=True)
dropna04 ==
    /\ Running("L195")
    /\ df04' = dropna(df04)
    /\ pc' = "L262"
    /\ UNCHANGED <<err, df09, df14, df, df_year>>

\* df04[cols] = df04[cols].applymap(lambda x: int(x))
\* The first value int() refuses raises ValueError and the assignment does
\* not happen; the notebook goes on to the next cell (line 270).
coerce04_first ==
    /\ Running("L262")
    /\ IF \A x \in CellsOf(df04, cols) : int_accepts(x)
       THEN df04' = applymap(df04, cols, "int")
       ELSE df04' = df04
    /\ pc' = "L284"
    /\ UNCHANGED <<err, df09, df14, df, df_year>>

\* frame[names] = frame[names].applymap(lambda x: int(x.replace(',', '')))
\* "ok" with the frame coerced, or the exception of the first value that
\* raises: a number has no replace (AttributeError), a string that is no
\* integer once its commas are gone is refused by int (ValueError).
coerce_columns(frame, names) ==
    LET cells == CellsOf(frame, names)
    IN  IF \E x \in cells : x.k # "str"
        THEN [raised |-> "AttributeError", frame |-> frame]
        ELSE IF \E x \in cells : ~int_ok(replace_comma(x.s))
        THEN [raised |-> "ValueError", frame |-> frame]
        ELSE [raised |-> "none", frame |-> applymap(frame, names, "coerce")]

\* df04[cols] = df04[cols].applymap(lambda x: int(x.replace(',', '')))
coerce04 ==
    /\ Running("L284")
    /\ LET r == coerce_columns(df04, cols)
       IN  IF r.raised # "none" THEN Raise(r.raised)
           ELSE /\ df04' = r.frame
                /\ pc' = "L376"
                /\ UNCHANGED <<err, df09, df14, df, df_year>>

\* df09 = pd.read_csv('../data/immunization_09-10.csv', skiprows=1)
read_csv09 ==
    /\ Running("L376")
    /\ \E file \in Files09 : df09' = file
    /\ pc' = "L428"
    /\ UNCHANGED <<err, df04, df14, df, df_year>>

\* df09 = df09[columns_to_keep]; df09.dropna(inplace=True)
project_dropna09 ==
    /\ Running("L428")
    /\ df09' = dropna(select_columns(df09, columns_to_keep09))
    /\ pc' = "L495"
    /\ UNCHANGED <<err, df04, df14, df, df_year>>

\* df14 = pd.read_csv('../data/Immunization_14-15.csv')
read_csv14 ==
    /\ Running("L495")
    /\ \E file \in Files14 : df14' = file
    /\ pc' = "L517"
    /\ UNCHANGED <<err, df04, df09, df, df_year>>

\* df14.ix[2:, [0, 3, 8]], before its NaN rows are dropped
sliced14(frame) == select_positions(frame, 2, <<0, 3, 8>>)

\* df14 = df14.ix[2:, [0, 3, 8]]; df14.dropna(inplace=True);
\* df14.columns = new_column_names
slice_dropna14 ==
    /\ Running("L517")
    /\ df14' = set_columns(dropna(sliced14(df14)), new_column_names)
    /\ pc' = "L569"
    /\ UNCHANGED <<err, df04, df09, df, df_year>>

\* df14[cols] = df14[cols].applymap(lambda x: int(x.replace(',', '')))
coerce14 ==
    /\ Running("L569")
    /\ LET r == coerce_columns(df14, cols14)
       IN  IF r.raised # "none" THEN Raise(r.raised)
           ELSE /\ df14' = r.frame
                /\ pc' = "L618"
                /\ UNCHANGED <<err, df04, df09, df, df_year>>

\* df14 = df14.drop(4876, axis=0): a label the frame does not have raises.
drop_sentinel14 ==
    /\ Running("L618")
    /\ IF ~HasLabel(df14, SentinelLabel) THEN Raise("ValueError")
       ELSE /\ df14' = drop_label(df14, SentinelLabel)
            /\ pc' = "L672"
            /\ UNCHANGED <<err, df04, df09, df, df_year>>

\* df14['Year'] = 2014
add_year14 ==
    /\ Running("L672")
    /\ df14' = add_column(df14, "Year", Num(2014))
    /\ pc' = "L684"
    /\ UNCHANGED <<err, df04, df09, df, df_year>>

\* df09['Year'] = 2009
add_year09 ==
    /\ Running("L684")
    /\ df09' = add_column(df09, "Year", Num(2009))
    /\ pc' = "L704"
    /\ UNCHANGED <<err, df04, df14, df, df_year>>

\* df09.columns = columns; df14.columns = columns: as many names as columns,
\* or a ValueError.
rename ==
    /\ Running("L704")
    /\ IF Len(df09.columns) # Len(columns) THEN Raise("ValueError")
       ELSE IF Len(df14.columns) # Len(columns)
       THEN /\ df09' = set_columns(df09, columns)
            /\ err' = "ValueError"
            /\ UNCHANGED <<pc, df04, df14, df, df_year>>
       ELSE /\ df09' = set_columns(df09, columns)
            /\ df14' = set_columns(df14, columns)
            /\ pc' = "L718"
            /\ UNCHANGED <<err, df04, df, df_year>>

\* df = pd.concat([df14, df09])
concat_14_09 ==
    /\ Running("L718")
    /\ df' = concat(df14, df09)
    /\ pc' = "L764"
    /\ UNCHANGED <<err, df04, df09, df14, df_year>>

\* df.insert(1, 'rcdt', 0); df['rcdt'] = df['rcdts'].apply(lambda x: x[:-4])
\* insert refuses a column the frame already has (ValueError); after the
\* insert, a frame without rcdts raises KeyError and a value of rcdts that
\* is no string raises TypeError.
insert_rcdt ==
    /\ Running("L764")
    /\ IF HasCol(df, "rcdt") THEN Raise("ValueError")
       ELSE IF ~HasCol(df, "rcdts")
       THEN /\ df' = insert(df, 1, "rcdt", Num(0))
            /\ err' = "KeyError"
            /\ UNCHANGED <<pc, df04, df09, df14, df_year>>
       ELSE IF \E x \in CellsOf(df, <<"rcdts">>) : x.k # "str"
       THEN /\ df' = insert(df, 1, "rcdt", Num(0))
            /\ err' = "TypeError"
            /\ UNCHANGED <<pc, df04, df09, df14, df_year>>
       ELSE /\ df' = assign_from(insert(df, 1, "rcdt", Num(0)),
                                 "rcdt", "rcdts", "truncate")
            /\ pc' = "L785"
            /\ UNCHANGED <<err, df04, df09, df14, df_year>>

\* df.drop('rcdts', axis=1, inplace=True)
drop_rcdts ==
    /\ Running("L785")
    /\ df' = drop_column(df, "rcdts")
    /\ pc' = "L816"
    /\ UNCHANGED <<err, df04, df09, df14, df_year>>

\* df04.drop('School', axis=1, inplace=True); df04['year'] = 2004;
\* df04.columns = columns_we_want
reshape04 ==
    /\ Running("L816")
    /\ df04' = set_columns(add_column(drop_column(df04, "School"),
                                      "year", Num(2004)),
                           columns_we_want)
    /\ pc' = "L839"
    /\ UNCHANGED <<err, df09, df14, df, df_year>>

\* df = pd.concat([df, df04])
concat_04 ==
    /\ Running("L839")
    /\ df' = concat(df, df04)
    /\ pc' = "L866"
    /\ UNCHANGED <<err, df04, df09, df14, df_year>>

\* df_year = df.groupby('year').aggregate({'enrollment':'sum', 'protected':'sum'})
aggregate_by_year ==
    /\ Running("L866")
    /\ df_year' = groupby_sum(df, "year", <<"enrollment", "protected">>)
    /\ pc' = "L878"
    /\ UNCHANGED <<err, df04, df09, df14, df>>

\* df_year['prot_perc'] = df_year['protected']/df_year['enrollment']
prot_perc ==
    /\ Running("L878")
    /\ df_year' = divide_columns(df_year, "prot_perc", "protected", "enrollment")
    /\ pc' = "done"
    /\ UNCHANGED <<err, df04, df09, df14, df>>

Next ==
    \/ read_csv04 \/ project04 \/ dropna04 \/ coerce04_first \/ coerce04
    \/ read_csv09 \/ project_dropna09
    \/ read_csv14 \/ slice_dropna14 \/ coerce14 \/ drop_sentinel14
    \/ add_year14 \/ add_year09 \/ rename \/ concat_14_09
    \/ insert_rcdt \/ drop_rcdts \/ reshape04 \/ concat_04
    \/ aggregate_by_year \/ prot_perc

Spec == Init /\ [][Next]_vars

(***************************************************************************)
(* pd.concat on its own: the cell of line 718 from any two frames, with    *)
(* schemas that agree and schemas that do not.                             *)
(***************************************************************************)
Schemas ==
    { columns, columns_we_want,
      <<"rcdts", "enrollment", "protected">>,
      <<"enrollment", "rcdts", "protected", "year">> }

Tables ==
    { Frame(names, seq) :
        names \in Schemas,
        seq \in { <<>>,
                  << <<Num(1), Num(2), Num(3), Num(4)>> >>,
                  << <<Num(5), Num(6), Num(7), Num(8)>>,
                     <<Num(1), Num(2), Num(3), Num(4)>> >> } }

Table(frame) ==
    [columns |-> frame.columns,
     rows |-> [i \in 1..Len(frame.rows) |->
        [idx |-> frame.rows[i].idx,
         v |-> SubSeq(frame.rows[i].v, 1, Len(frame.columns))]]]

InitConcat ==
    /\ pc = "L718"
    /\ err = "none"
    /\ df04 = NoFrame
    /\ df14 \in {Table(f) : f \in Tables}
    /\ df09 \in {Table(f) : f \in Tables}
    /\ df = NoFrame
    /\ df_year = NoFrame

NextConcat == concat_14_09

SpecConcat == InitConcat /\ [][NextConcat]_vars

(***************************************************************************)
(* Properties                                                              *)
(***************************************************************************)
Rows(frame) == 1..Len(frame.rows)

Cell(frame, i, name) == Col(frame, frame.rows[i], name)

Final == pc \in {"L866", "L878", "done"}

IsCount(x) == x.k = "num" /\ x.d = 1 /\ x.n >= 0

\* C1: in the final table, the enrolled and protected fields of every row,
\* whichever extract it came from, are non-negative integers.
C1_counts_are_naturals ==
    Final =>
        \A i \in Rows(df) : /\ IsCount(Cell(df, i, "enrollment"))
                            /\ IsCount(Cell(df, i, "protected"))

\* A string of digits with commas inserted.
DigitsWithCommas(x) ==
    /\ x.k = "str"
    /\ \E i \in 1..Len(x.s) : IsDigit(x.s[i])
    /\ \A i \in 1..Len(x.s) : IsDigit(x.s[i]) \/ x.s[i] = ","

\* The integer the digits of chars write, read left to right.
RECURSIVE Written(_, _)
Written(chars, acc) ==
    IF chars = <<>> THEN acc
    ELSE IF Head(chars) = "," THEN Written(Tail(chars), acc)
    ELSE Written(Tail(chars), 10 * acc + DigitVal[Head(chars)])

Coerces(line, next, before, after, names) ==
    Running(line) =>
        /\ (\A x \in CellsOf(before, names) : DigitsWithCommas(x))
              => err' = "none" /\ pc' = next
        /\ err' = "none" =>
              /\ Len(after.rows) = Len(before.rows)
              /\ \A i \in Rows(before) : \A m \in 1..Len(names) :
                    DigitsWithCommas(Cell(before, i, names[m])) =>
                        Cell(after, i, names[m])
                            = Num(Written(Cell(before, i, names[m]).s, 0))

\* C2: the coercion cells (04-05 and 14-15) turn every string of digits with
\* commas inserted into the integer its digits write, however many commas
\* it has, and a frame of such strings is coerced without an exception;
\* "1,234" gives 1234.
C2_commas_removed_then_parsed ==
    /\ [][/\ Coerces("L284", "L376", df04, df04', cols)
          /\ Coerces("L569", "L618", df14, df14', cols14)]_vars
    /\ coerce(Str(<<"1", ",", "2", "3", "4">>)) = Num(1234)

\* The 14-15 frame has been coerced and holds 999, read from "9,9,9".
C2_witness ==
    /\ pc = "L618"
    /\ err = "none"
    /\ \E i \in Rows(df14) : Cell(df14, i, "Enrolled") = Num(999)

\* A numeric field that is still no integer once its commas are removed.
Residue(x) == x.k = "str" /\ ~int_ok(replace_comma(x.s))

BadRow(frame, i, names) ==
    \E m \in 1..Len(names) : Residue(Cell(frame, i, names[m]))

\* C3: when a numeric field of a row of the 04-05 frame keeps non-numeric
\* characters after the commas are removed, the coercion does not abort:
\* that row alone is excluded and every other row is coerced.
C3_bad_row_excluded_rest_coerced ==
    [][(Running("L284") /\ \E i \in Rows(df04) : BadRow(df04, i, cols)) =>
          /\ err' = "none"
          /\ pc' = "L376"
          /\ \A i \in Rows(df04) :
                ~BadRow(df04, i, cols) =>
                    \E j \in Rows(df04') :
                        /\ df04'.rows[j].idx = df04.rows[i].idx
                        /\ Cell(df04', j, cols[1]).k = "num"
          /\ \A j \in Rows(df04') :
                \E i \in Rows(df04) :
                    /\ df04.rows[i].idx = df04'.rows[j].idx
                    /\ ~BadRow(df04, i, cols)]_vars

\* The columns of each file that hold the fields of the target schema.
required04 == <<"RCDT", "Total Sch. Enroll.", "Polio Prot.">>

required09 == <<"RCDTS", "Enrollment", "PolioProt">>

required14 == <<"c0", "c3", "c8">>

Blank(frame, i, names) ==
    \E m \in 1..Len(names) : Cell(frame, i, names[m]).k = "nan"

\* after is before without the rows that have a blank required field.
NullFiltered(before, after, names) ==
    /\ \A i \in Rows(before) :
          Blank(before, i, names)
              <=> ~\E j \in Rows(after) : after.rows[j].idx = before.rows[i].idx
    /\ Len(before.rows) - Len(after.rows)
          = Cardinality({i \in Rows(before) : Blank(before, i, names)})

\* C4: each dropna cell removes exactly the rows in which a required field
\* (identifier, enrolled, protected) is blank: as many rows go as have one,
\* and a row with all three present stays.
C4_only_blank_required_dropped ==
    [][/\ Running("L195") => NullFiltered(df04, df04', required04)
       /\ Running("L428") => NullFiltered(df09, df09', required09)
       /\ Running("L517") => NullFiltered(sliced14(df14), df14', required14)]_vars

Concatenated(a, b, out) ==
    /\ a.columns = b.columns
    /\ out.columns = a.columns
    /\ Len(out.rows) = Len(a.rows) + Len(b.rows)
    /\ \A i \in Rows(a) : out.rows[i] = a.rows[i]
    /\ \A i \in Rows(b) : out.rows[Len(a.rows) + i] = b.rows[i]

\* C6: each concatenation is of frames with the same columns and gives a
\* frame as long as both together, the rows of the first in their order,
\* then the rows of the second in theirs; in the final table the 2014 rows
\* come first, then the 2009 rows, then the 2004 rows.
C6_concat_appends_in_order ==
    [][/\ Running("L718") => Concatenated(df14, df09, df')
       /\ Running("L839") =>
             /\ Concatenated(df, df04, df')
             /\ \A i \in Rows(df') : \A j \in Rows(df') :
                   i < j => Cell(df', i, "year").n >= Cell(df', j, "year").n]_vars

\* The final table holds rows of all three years: one of 2014, two of 2009
\* and one of 2004 at least.
C6_witness ==
    /\ pc = "L866"
    /\ Len(df14.rows) >= 1
    /\ Len(df09.rows) >= 2
    /\ Len(df04.rows) >= 1
    /\ Len(df.rows) = Len(df14.rows) + Len(df09.rows) + Len(df04.rows)

YearsOf(frame) == {Cell(frame, i, "year").n : i \in Rows(frame)}

\* The sum of a column over the rows of one year, row by row from the first.
RECURSIVE Total(_, _, _, _)
Total(frame, name, year, upto) ==
    IF upto = 0 THEN Num(0)
    ELSE IF Cell(frame, upto, "year").n = year
         THEN Add(Total(frame, name, year, upto - 1), Cell(frame, upto, name))
         ELSE Total(frame, name, year, upto - 1)

Example8 ==
    [columns |-> <<"rcdt", "enrollment", "protected", "year">>,
     rows |-> << [idx |-> 0, v |-> <<Str(<<"A">>), Num(100), Num(90), Num(2004)>>],
                 [idx |-> 1, v |-> <<Str(<<"B">>), Num(50), Num(40), Num(2004)>>] >>]

\* C8: the aggregate has exactly one row per distinct year of the table,
\* holding the sums of enrollment and of protected over the rows of that
\* year, and prot_perc is the second sum divided by the first where the
\* first is not zero; (A,100,90,2004), (B,50,40,2004) give 2004: 150, 130,
\* 130/150.
C8_one_row_per_year_with_sums ==
    /\ pc \in {"L878", "done"} =>
          /\ Len(df_year.rows) = Cardinality(YearsOf(df))
          /\ \A y \in YearsOf(df) :
                \E g \in Rows(df_year) :
                    /\ df_year.rows[g].idx = y
                    /\ Cell(df_year, g, "enrollment")
                          = Total(df, "enrollment", y, Len(df.rows))
                    /\ Cell(df_year, g, "protected")
                          = Total(df, "protected", y, Len(df.rows))
    /\ pc = "done" =>
          \A g \in Rows(df_year) :
              LET e == Cell(df_year, g, "enrollment")
                  p == Cell(df_year, g, "protected")
                  r == Cell(df_year, g, "prot_perc")
              IN  e.n # 0 =>
                      /\ r.k = "num"
                      /\ r.d > 0
                      /\ r.n * e.n * p.d = r.d * p.n * e.d
    /\ pc = "done" =>
          divide_columns(groupby_sum(Example8, "year", <<"enrollment", "protected">>),
                         "prot_perc", "protected", "enrollment").rows
              = << [idx |-> 2004, v |-> <<Num(150), Num(130), Rat(130, 150)>>] >>

\* The aggregate is computed over a table with two rows of one year and
\* rows of another year.
C8_witness ==
    /\ pc = "done"
    /\ Len(df_year.rows) >= 2
    /\ \E i \in Rows(df) : \E j \in Rows(df) :
          i # j /\ Cell(df, i, "year") = Cell(df, j, "year")

\* C9: a year whose enrolled values sum to 0 gets no ratio: the division
\* raises and df_year never holds a prot_perc (NaN, infinite or zero) for it.
C9_zero_enrollment_raises ==
    (HasCol(df_year, "enrollment") /\ HasCol(df_year, "prot_perc")) =>
        \A g \in Rows(df_year) : Cell(df_year, g, "enrollment").n # 0

IsPrefix(p, chars) == Len(p) <= Len(chars) /\ p = SubSeq(chars, 1, Len(p))

\* C10 as stated: after the truncation cell every rcdt is a prefix of its
\* rcdts, exactly 4 characters shorter.
C10_four_shorter ==
    pc = "L785" =>
        \A i \in Rows(df) :
            /\ IsPrefix(Cell(df, i, "rcdt").s, Cell(df, i, "rcdts").s)
            /\ Len(Cell(df, i, "rcdt").s) = Len(Cell(df, i, "rcdts").s) - TrimWidth

\* C10, amended: after the truncation cell the table has a row for every row
\* of the 2014 and 2009 frames, and every rcdt is a string, a prefix of its
\* rcdts, 4 characters shorter when rcdts has more than 4 characters and
\* empty otherwise; "123456789999" gives "12345678".
C10_prefix_four_shorter_or_empty ==
    /\ pc = "L785" =>
          /\ Len(df.rows) = Len(df14.rows) + Len(df09.rows)
          /\ \A i \in Rows(df) :
                LET id == Cell(df, i, "rcdts")
                    out == Cell(df, i, "rcdt")
                IN  /\ out.k = "str"
                    /\ IsPrefix(out.s, id.s)
                    /\ Len(out.s) = IF Len(id.s) > TrimWidth
                                    THEN Len(id.s) - TrimWidth ELSE 0
    /\ pc = "L785" =>
          truncate(Str(<<"1", "2", "3", "4", "5", "6", "7", "8", "9", "9", "9", "9">>))
              = Str(<<"1", "2", "3", "4", "5", "6", "7", "8">>)

\* The truncation cell has run on a table with the identifier 01001001,
\* now 0100, and with the identifier 010, now empty.
C10_witness ==
    /\ pc = "L785"
    /\ \E i \in Rows(df) :
          Cell(df, i, "rcdts") = id_01001001 /\ Cell(df, i, "rcdt") = id_0100
    /\ \E i \in Rows(df) :
          Cell(df, i, "rcdts") = id_010 /\ Cell(df, i, "rcdt") = Str(<<>>)

\* The table of (rcdt, enrollment, protected, year) rows: df once rcdts is
\* dropped (line 785), before and after the 2004 rows are appended.
Normalized == pc \in {"L816", "L839", "L866", "L878", "done"}

\* C11: the normalized table never has two rows with the same identifier and
\* the same year.
C11_no_duplicate_id_year ==
    Normalized =>
        \A i, j \in Rows(df) :
            (/\ Cell(df, i, "rcdt") = Cell(df, j, "rcdt")
             /\ Cell(df, i, "year") = Cell(df, j, "year")) => i = j

\* The count a field stands for: a number, or a string the coercion turns
\* into one; anything else stands for none.
HasCount(x) == x.k = "num" \/ (x.k = "str" /\ int_ok(replace_comma(x.s)))

Count(x) == IF x.k = "num" THEN x ELSE coerce(x)

\* The row's protected count is above its enrolled count.
Exceeds(frame, i, protected, enrolled) ==
    LET p == Cell(frame, i, protected)
        e == Cell(frame, i, enrolled)
    IN  /\ HasCount(p) /\ HasCount(e)
        /\ Count(p).d > 0 /\ Count(e).d > 0
        /\ Count(p).n * Count(e).d > Count(e).n * Count(p).d

\* Every row of before with protected above enrolled, the deny-listed label
\* aside, is a row of after.
ViolationsKept(before, after, protected, enrolled, denied) ==
    \A i \in Rows(before) :
        (Exceeds(before, i, protected, enrolled) /\ before.rows[i].idx \notin denied)
            => \E j \in Rows(after) : after.rows[j].idx = before.rows[i].idx

\* The table marks the row: it holds a value in a column beside the four
\* fields of the schema.
Flagged(frame, i) ==
    \E j \in 1..Len(frame.columns) :
        /\ frame.columns[j] \notin {"rcdt", "enrollment", "protected", "year"}
        /\ frame.rows[i].v[j].k # "nan"

\* C12: a row whose protected count is above its enrolled count, unless it is
\* the deny-listed sentinel row, is removed by none of the cells that remove
\* rows, and is flagged as a violation in the final table.
C12_violations_kept_and_flagged ==
    /\ [][/\ Running("L195") =>
                ViolationsKept(df04, df04', "Polio Prot.", "Total Sch. Enroll.", {})
          /\ Running("L428") =>
                ViolationsKept(df09, df09', "PolioProt", "Enrollment", {})
          /\ Running("L517") =>
                ViolationsKept(sliced14(df14), df14', "c8", "c3", {})
          /\ (Running("L618") /\ err' = "none") =>
                ViolationsKept(df14, df14', "Protected", "Enrolled", {SentinelLabel})]_vars
    /\ [](Final =>
            \A i \in Rows(df) :
                Exceeds(df, i, "protected", "enrollment") => Flagged(df, i))

\* The extract a row of the final table came from, by its position: the
\* 14-15 rows, then the 09-10 rows, then the 04-05 rows.
Origin(i) ==
    IF i <= Len(df14.rows)
    THEN [frame |-> df14, row |-> i, year |-> 2014]
    ELSE IF i <= Len(df14.rows) + Len(df09.rows)
    THEN [frame |-> df09, row |-> i - Len(df14.rows), year |-> 2009]
    ELSE [frame |-> df04, row |-> i - Len(df14.rows) - Len(df09.rows),
          year |-> 2004]

\* C13: through the column operations of lines 672 to 839 the frames have
\* the column lists the next cell expects; at each of the two concatenations
\* both operands have the same columns in the same order; the final table
\* has exactly the columns rcdt, enrollment, protected, year, and each of its
\* rows has the year of the extract it came from: 2014, 2009 or 2004.
C13_columns_aligned_years_constant ==
    err = "none" =>
        /\ pc = "L672" => df14.columns = <<"RCDTS", "Enrolled", "Protected">>
        /\ pc = "L684" =>
              df14.columns = <<"RCDTS", "Enrolled", "Protected", "Year">>
        /\ pc = "L704" =>
              df09.columns = <<"RCDTS", "Enrollment", "PolioProt", "Year">>
        /\ pc = "L718" =>
              /\ df14.columns = df09.columns
              /\ df14.columns = <<"rcdts", "enrollment", "protected", "year">>
              /\ \A i \in Rows(df14) : Cell(df14, i, "year") = Num(2014)
              /\ \A i \in Rows(df09) : Cell(df09, i, "year") = Num(2009)
        /\ pc = "L764" =>
              df.columns = <<"rcdts", "enrollment", "protected", "year">>
        /\ pc = "L785" =>
              df.columns = <<"rcdts", "rcdt", "enrollment", "protected", "year">>
        /\ pc = "L816" =>
              /\ df.columns = <<"rcdt", "enrollment", "protected", "year">>
              /\ df04.columns
                    = <<"RCDT", "School", "Total Sch. Enroll.", "Polio Prot.">>
        /\ pc = "L839" =>
              /\ df.columns = df04.columns
              /\ df04.columns = <<"rcdt", "enrollment", "protected", "year">>
              /\ \A i \in Rows(df04) : Cell(df04, i, "year") = Num(2004)
        /\ Final =>
              /\ df.columns = <<"rcdt", "enrollment", "protected", "year">>
              /\ Len(df.rows)
                    = Len(df14.rows) + Len(df09.rows) + Len(df04.rows)
              /\ \A i \in Rows(df) :
                    LET o == Origin(i)
                    IN  /\ df.rows[i].idx = o.frame.rows[o.row].idx
                        /\ Cell(df, i, "enrollment")
                              = Cell(o.frame, o.row, "enrollment")
                        /\ Cell(df, i, "protected")
                              = Cell(o.frame, o.row, "protected")
                        /\ Cell(df, i, "year") = Num(o.year)

\* Both concatenations have run and the final table has a row of each of
\* the three extracts.
C13_witness ==
    /\ pc = "L866"
    /\ err = "none"
    /\ Len(df14.rows) >= 1 /\ Len(df09.rows) >= 1 /\ Len(df04.rows) >= 1
    /\ \A y \in {2004, 2009, 2014} :
          \E i \in Rows(df) : Cell(df, i, "year") = Num(y)

====
